---- MODULE Spec2Model ----
(***************************************************************************)
(* State-machine model of the react-learning demo application:             *)
(*   - the zustand user store of StoreDemo.jsx and the views driving it,   *)
(*   - AutomaticBatching.jsx,                                              *)
(*   - RouterDemo, UseTransitionDemo, UseDeferredValueDemo and App.        *)
(* JavaScript strings are modelled as sequences of one-character strings,  *)
(* null / undefined as the empty sequence <<>> and a present value v as    *)
(* the one-element sequence <<v>>.                                         *)
(***************************************************************************)
EXTENDS Integers, Sequences, FiniteSets, TLC

VARIABLES
    \* ---- useUserStore (StoreDemo.jsx:19-78) ----
    userInfo,       \* <<>> (null) or <<[id, username, nickname]>>
    isLoading,      \* BOOLEAN
    error,          \* <<>> (null) or <<message>>
    userList,       \* sequence of user records
    pending,        \* async store calls awaiting their timer, in start order
    settled,        \* <<>> or <<outcome of the call that settled last>>
    \* ---- StoreDemo / UserInfo component state ----
    activeTab,      \* StoreDemo.activeTab
    username,       \* UserInfo.username (input field)
    password,       \* UserInfo.password (input field)
    event,          \* the UI event or store operation handled last
    \* ---- AutomaticBatching component ----
    count,          \* useState(0), as last rendered
    flag,           \* useState(false), as last rendered
    updates,        \* state updates queued and not yet rendered
    microtasks,     \* Promise callbacks queued and not yet run
    renders,        \* render passes caused by state updates
    clicks,         \* button clicks handled
    \* ---- RouterDemo component and the browser history ----
    history,        \* entries of the history stack, the last is the location
    routerTab,      \* RouterDemo.activeTab
    \* ---- UseDeferredValueDemo component ----
    dvQuery,        \* query
    deferredQuery,  \* useDeferredValue(query), as last rendered
    memo,           \* the useMemo cell: [dep, value]
    \* ---- UseTransitionDemo component ----
    trQuery,        \* query, as last rendered
    isPending,      \* useTransition()[0], as last rendered
    transitions,    \* setQuery updates queued by startTransition
    selectedId,     \* <<>> (null) or <<id>>
    typed,          \* e.target.value of the last change event
    \* ---- App component ----
    activeFeature,  \* useState('batching')
    navClicks       \* navigation button clicks handled

storeVars == <<userInfo, isLoading, error, userList, pending, settled>>
viewVars  == <<activeTab, username, password>>
userVars  == <<userInfo, isLoading, error, userList, pending, settled,
               activeTab, username, password>>
batchVars == <<count, flag, updates, microtasks, renders, clicks>>
routerVars == <<history, routerTab>>
deferVars == <<dvQuery, deferredQuery, memo>>
transVars == <<trQuery, isPending, transitions, selectedId, typed>>
appVars == <<activeFeature, navClicks>>
vars == <<userInfo, isLoading, error, userList, pending, settled,
          activeTab, username, password, event,
          count, flag, updates, microtasks, renders, clicks,
          history, routerTab,
          dvQuery, deferredQuery, memo,
          trQuery, isPending, transitions, selectedId, typed,
          activeFeature, navClicks>>

\* what a step of one component leaves alone
OnlyUser   == UNCHANGED <<batchVars, routerVars, deferVars, transVars, appVars>>
OnlyBatch  == UNCHANGED <<userVars, routerVars, deferVars, transVars, appVars>>
OnlyRouter == UNCHANGED <<userVars, batchVars, deferVars, transVars, appVars>>
OnlyDefer  == UNCHANGED <<userVars, batchVars, routerVars, transVars, appVars>>
OnlyTrans  == UNCHANGED <<userVars, batchVars, routerVars, deferVars, appVars>>
OnlyApp    == UNCHANGED <<userVars, batchVars, routerVars, deferVars, transVars>>

(***************************************************************************)
(* Bounds                                                                  *)
(***************************************************************************)
MaxPwLen == 6       \* longest password tried
MaxPending == 2     \* most store calls in flight at once (direct calls)

(***************************************************************************)
(* Values                                                                  *)
(***************************************************************************)
Null == <<>>
Some(v) == <<v>>

Str(n) == [i \in 1..n |-> "x"]                  \* a string of n characters
Passwords == {Str(n) : n \in 0..MaxPwLen}
PasswordArgs == {Null} \cup {Some(p) : p \in Passwords}   \* Null: argument missing
Usernames == {<<>>, <<"u">>}                    \* "" and "u"

MinPasswordLength == 6
LoginDelay == 1000
FetchDelay == 800
PasswordError == "password length at least 6"   \* the fixed message of line 39

\* JavaScript truthiness of a string-or-undefined argument: !s
Falsy(s) == s = Null \/ s[1] = <<>>

\* the length test off by one: password.length < 5
PasswordRejected_Below5(pw) == Falsy(pw) \/ Len(pw[1]) < MinPasswordLength - 1

\* StoreDemo.jsx:38   !password || password.length < 6
PasswordRejected(pw) == Falsy(pw) \/ Len(pw[1]) < MinPasswordLength

\* StoreDemo.jsx:44   { id: 1, username, nickname: 'Demo User' }
DemoUser(u) == [id |-> 1, username |-> u, nickname |-> "Demo User"]

\* StoreDemo.jsx:60-64
FixedUserList ==
    << [id |-> 1, name |-> "zhangsan", email |-> "zhangsan@example.com"],
       [id |-> 2, name |-> "lisi",     email |-> "lisi@example.com"],
       [id |-> 3, name |-> "wangwu",   email |-> "wangwu@example.com"] >>

\* What a settled call leaves behind: who it was and the value its promise
\* resolved to ("true", "false" or "undefined").
Outcome(c, v) ==
    [kind |-> c.kind, username |-> c.username, overlapped |-> c.overlapped,
     value |-> v]

\* A call in flight.  overlapped observes whether another call was pending
\* at any time during this one; it never influences the store.
LoginCall(u, pw, ov) ==
    [kind |-> "login", username |-> u, password |-> pw, overlapped |-> ov]
FetchCall(ov) ==
    [kind |-> "fetchUserList", username |-> <<>>, password |-> Null,
     overlapped |-> ov]

Delay(c) == IF c.kind = "login" THEN LoginDelay ELSE FetchDelay

\* setTimeout ordering: a timer fires before every timer that was started
\* earlier only if its delay is strictly shorter than theirs.
TimerMayFire(i) ==
    /\ i \in 1..Len(pending)
    /\ \A j \in 1..(i - 1) : Delay(pending[i]) < Delay(pending[j])

RemoveAt(s, i) == [j \in 1..(Len(s) - 1) |-> IF j < i THEN s[j] ELSE s[j + 1]]
MarkOverlapped(s) == [j \in 1..Len(s) |-> [s[j] EXCEPT !.overlapped = TRUE]]

Ev(op, arg) == [op |-> op, arg |-> arg]

(***************************************************************************)
(* Store operations                                                        *)
(***************************************************************************)
\* login that starts with set({ isLoading: true }) only
LoginStart_KeepsError(u, pw) ==
    /\ isLoading' = TRUE
    /\ pending' = Append(MarkOverlapped(pending), LoginCall(u, pw, pending # <<>>))
    /\ UNCHANGED <<userInfo, error, userList, settled>>

\* login, up to the await (StoreDemo.jsx:31-35)
LoginStart(u, pw) ==
    /\ isLoading' = TRUE
    /\ error' = Null
    /\ pending' = Append(MarkOverlapped(pending), LoginCall(u, pw, pending # <<>>))
    /\ UNCHANGED <<userInfo, userList, settled>>

\* login whose rejection is set({ error }) only
LoginSettle_KeepsLoading(i) ==
    /\ TimerMayFire(i)
    /\ pending[i].kind = "login"
    /\ IF PasswordRejected(pending[i].password)
         THEN /\ error' = Some(PasswordError)
              /\ UNCHANGED <<userInfo, isLoading>>
              /\ settled' = Some(Outcome(pending[i], "false"))
         ELSE /\ userInfo' = Some(DemoUser(pending[i].username))
              /\ isLoading' = FALSE
              /\ UNCHANGED error
              /\ settled' = Some(Outcome(pending[i], "true"))
    /\ pending' = RemoveAt(pending, i)
    /\ UNCHANGED userList

\* login, from the timer to the return (StoreDemo.jsx:37-46).  The catch
\* clause of lines 47-50 is never entered: nothing in the try block throws.
LoginSettle(i) ==
    /\ TimerMayFire(i)
    /\ pending[i].kind = "login"
    /\ IF PasswordRejected(pending[i].password)
         THEN /\ error' = Some(PasswordError)
              /\ isLoading' = FALSE
              /\ UNCHANGED userInfo
              /\ settled' = Some(Outcome(pending[i], "false"))
         ELSE /\ userInfo' = Some(DemoUser(pending[i].username))
              /\ isLoading' = FALSE
              /\ UNCHANGED error
              /\ settled' = Some(Outcome(pending[i], "true"))
    /\ pending' = RemoveAt(pending, i)
    /\ UNCHANGED userList

\* fetchUserList, up to the await (StoreDemo.jsx:54-58)
FetchStart ==
    /\ isLoading' = TRUE
    /\ error' = Null
    /\ pending' = Append(MarkOverlapped(pending), FetchCall(pending # <<>>))
    /\ UNCHANGED <<userInfo, userList, settled>>

\* fetchUserList that adds the records to the list it finds
FetchSettle_Appends(i) ==
    /\ TimerMayFire(i)
    /\ pending[i].kind = "fetchUserList"
    /\ userList' = userList \o FixedUserList
    /\ isLoading' = FALSE
    /\ settled' = Some(Outcome(pending[i], "undefined"))
    /\ pending' = RemoveAt(pending, i)
    /\ UNCHANGED <<userInfo, error>>

\* fetchUserList, from the timer to the end (StoreDemo.jsx:60-65)
FetchSettle(i) ==
    /\ TimerMayFire(i)
    /\ pending[i].kind = "fetchUserList"
    /\ userList' = FixedUserList
    /\ isLoading' = FALSE
    /\ settled' = Some(Outcome(pending[i], "undefined"))
    /\ pending' = RemoveAt(pending, i)
    /\ UNCHANGED <<userInfo, error>>

\* logout that also drops the calls in flight
Logout_CancelsPending ==
    /\ userInfo' = Null
    /\ userList' = <<>>
    /\ pending' = <<>>
    /\ UNCHANGED <<isLoading, error, settled>>

\* logout that resets the whole state: set({ userInfo: null, userList: [],
\* isLoading: false, error: null })
Logout_ResetsAll ==
    /\ userInfo' = Null
    /\ userList' = <<>>
    /\ isLoading' = FALSE
    /\ error' = Null
    /\ UNCHANGED <<pending, settled>>

\* logout (StoreDemo.jsx:72)
Logout ==
    /\ userInfo' = Null
    /\ userList' = <<>>
    /\ UNCHANGED <<isLoading, error, pending, settled>>

\* getters (StoreDemo.jsx:76-77)
getIsLoggedIn == userInfo # Null
getUserCount == Len(userList)

(***************************************************************************)
(* Direct use of the store                                                 *)
(***************************************************************************)
CallLogin ==
    \E u \in Usernames, pw \in PasswordArgs :
        /\ Len(pending) < MaxPending
        /\ LoginStart(u, pw)
        /\ event' = Ev("login", <<>>)
        /\ UNCHANGED viewVars
        /\ OnlyUser

CallFetchUserList ==
    /\ Len(pending) < MaxPending
    /\ FetchStart
    /\ event' = Ev("fetchUserList", <<>>)
    /\ UNCHANGED viewVars
    /\ OnlyUser

CallLogout ==
    /\ Logout
    /\ event' = Ev("logout", <<>>)
    /\ UNCHANGED viewVars
    /\ OnlyUser

LoginTimer ==
    \E i \in 1..Len(pending) :
        /\ LoginSettle(i)
        /\ event' = Ev("loginSettled", <<>>)
        /\ UNCHANGED viewVars
        /\ OnlyUser

FetchTimer ==
    \E i \in 1..Len(pending) :
        /\ FetchSettle(i)
        /\ event' = Ev("fetchSettled", <<>>)
        /\ UNCHANGED viewVars
        /\ OnlyUser

\* The timer of the call started earliest is never held back by another.
OldestTimer ==
    /\ pending # <<>>
    /\ (LoginSettle(1) \/ FetchSettle(1))
    /\ event' = Ev(IF pending[1].kind = "login" THEN "loginSettled" ELSE "fetchSettled", <<>>)
    /\ UNCHANGED viewVars
    /\ OnlyUser

(***************************************************************************)
(* StoreDemo rendered: the UserInfo and UserList views drive the store     *)
(***************************************************************************)
Tabs == {"intro", "user", "counter"}

\* StoreDemo.jsx:345-352   UserInfo and UserList exist only in the user tab
UserTabMounted == activeTab = "user"

\* StoreDemo.jsx:108-110   UserInfo renders only the loading box
ShowsLoading == UserTabMounted /\ isLoading

\* StoreDemo.jsx:116   {error && <div className="error">...}
ShowsError == UserTabMounted /\ ~isLoading /\ error # Null

\* StoreDemo.jsx:118-140   userInfo ? logout button : login form
ShowsLogoutButton == UserTabMounted /\ ~isLoading /\ userInfo # Null
ShowsLoginForm == UserTabMounted /\ ~isLoading /\ userInfo = Null

\* the fetch button without its disabled attribute
FetchButton_NeverDisabled == UserTabMounted

\* StoreDemo.jsx:174   <button onClick={fetchUserList} disabled={isLoading}>
FetchButtonEnabled == UserTabMounted /\ ~isLoading

\* StoreDemo.jsx:245-262   the three tab buttons; leaving the user tab
\* unmounts UserInfo, whose useState fields start again from ''.
SetActiveTab(t) ==
    /\ activeTab' = t
    /\ IF t = "user" /\ activeTab = "user"
         THEN UNCHANGED <<username, password>>
         ELSE username' = <<>> /\ password' = <<>>
    /\ event' = Ev("setActiveTab", <<>>)
    /\ UNCHANGED storeVars
    /\ OnlyUser

\* StoreDemo.jsx:130   onChange of the username input
SetUsername(v) ==
    /\ ShowsLoginForm
    /\ username' = v
    /\ event' = Ev("setUsername", <<>>)
    /\ UNCHANGED <<activeTab, password>>
    /\ UNCHANGED storeVars
    /\ OnlyUser

\* StoreDemo.jsx:136   onChange of the password input
SetPassword(v) ==
    /\ ShowsLoginForm
    /\ password' = v
    /\ event' = Ev("setPassword", <<>>)
    /\ UNCHANGED <<activeTab, username>>
    /\ UNCHANGED storeVars
    /\ OnlyUser

\* StoreDemo.jsx:103-106 and 138   the login button and handleLogin
handleLogin ==
    /\ ShowsLoginForm
    /\ event' = Ev("handleLogin", <<username, password>>)
    /\ IF Falsy(Some(username)) \/ Falsy(Some(password))
         THEN UNCHANGED storeVars
         ELSE /\ Len(pending) < MaxPending
              /\ LoginStart(username, Some(password))
    /\ UNCHANGED viewVars
    /\ OnlyUser

\* StoreDemo.jsx:122   <button onClick={logout}>
ClickLogout ==
    /\ ShowsLogoutButton
    /\ Logout
    /\ event' = Ev("logout", <<>>)
    /\ UNCHANGED viewVars
    /\ OnlyUser

\* StoreDemo.jsx:174   the fetch button of UserList
ClickFetchUserList ==
    /\ FetchButtonEnabled
    /\ Len(pending) < MaxPending
    /\ FetchStart
    /\ event' = Ev("fetchUserList", <<>>)
    /\ UNCHANGED viewVars
    /\ OnlyUser

ClickTab == \E t \in Tabs : SetActiveTab(t)
TypeUsername == \E v \in Usernames : SetUsername(v)
TypePassword == \E v \in Passwords : SetPassword(v)

(***************************************************************************)
(* AutomaticBatching.jsx                                                   *)
(***************************************************************************)
MaxClicks == 40     \* most button clicks followed

\* main.jsx mounts the application with createRoot (the React 18 root API)
RootApi == "createRoot"

\* the React 17 rule: only updates made inside a React event handler batch
Batches_EventOnly(ctx) == ctx = "event"

\* AutomaticBatching.jsx:6-16 and README: before React 18 only updates made
\* in a React event handler are batched; under the React 18 root all are.
Batches(ctx) == RootApi = "createRoot" \/ ctx = "event"

Update(op, ctx) == [op |-> op, ctx |-> ctx]

\* setCount(c => c + 1); setFlag(f => !f)   (lines 38-39, 48-49, 58-59)
TwoUpdates(ctx) == << Update("inc", ctx), Update("toggle", ctx) >>

NumberOf(op, us) == Cardinality({k \in 1..Len(us) : us[k].op = op})

\* no update and no Promise callback is outstanding: the browser is ready
\* to dispatch the next click
BatchIdle == updates = <<>> /\ microtasks = 0

\* AutomaticBatching.jsx:33-40
handleClick ==
    /\ BatchIdle /\ clicks < MaxClicks
    /\ updates' = TwoUpdates("event")
    /\ clicks' = clicks + 1
    /\ event' = Ev("handleClick", <<>>)
    /\ UNCHANGED <<count, flag, microtasks, renders>>
    /\ OnlyBatch

\* AutomaticBatching.jsx:42-50 (the handler issues both updates itself; it
\* sets no timer)
handleTimeout ==
    /\ BatchIdle /\ clicks < MaxClicks
    /\ updates' = TwoUpdates("event")
    /\ clicks' = clicks + 1
    /\ event' = Ev("handleTimeout", <<>>)
    /\ UNCHANGED <<count, flag, microtasks, renders>>
    /\ OnlyBatch

\* AutomaticBatching.jsx:52-57   Promise.resolve().then(...)
handlePromise ==
    /\ BatchIdle /\ clicks < MaxClicks
    /\ microtasks' = microtasks + 1
    /\ clicks' = clicks + 1
    /\ event' = Ev("handlePromise", <<>>)
    /\ UNCHANGED <<count, flag, updates, renders>>
    /\ OnlyBatch

\* AutomaticBatching.jsx:57-60   the Promise callback
PromiseCallback ==
    /\ microtasks > 0
    /\ microtasks' = microtasks - 1
    /\ updates' = updates \o TwoUpdates("promise")
    /\ event' = Ev("promiseCallback", <<>>)
    /\ UNCHANGED <<count, flag, renders, clicks>>
    /\ OnlyBatch

\* One render pass of the component (AutomaticBatching.jsx:21-24, 63-69):
\* it applies the queued updates, all of them when they are batched and the
\* first one otherwise.
RenderBatch ==
    /\ updates # <<>>
    /\ LET n == IF Batches(updates[1].ctx) THEN Len(updates) ELSE 1
           applied == SubSeq(updates, 1, n)
       IN /\ count' = count + NumberOf("inc", applied)
          /\ flag' = IF NumberOf("toggle", applied) % 2 = 1 THEN ~flag ELSE flag
          /\ updates' = SubSeq(updates, n + 1, Len(updates))
          /\ event' = Ev("render", <<updates[1].ctx>>)
    /\ renders' = renders + 1
    /\ UNCHANGED <<microtasks, clicks>>
    /\ OnlyBatch

(***************************************************************************)
(* RouterDemo                                                              *)
(***************************************************************************)
MaxHistory == 3     \* most entries kept of the history stack

\* A path is the sequence of its segments: "/" is <<>>.
\* RouterDemo demo-nav (part_000:306-309)
DemoLinks ==
    << [label |-> "home",        to |-> <<"router-demo">>],
       [label |-> "about",       to |-> <<"router-demo", "about">>],
       [label |-> "user-list",   to |-> <<"router-demo", "user-list">>],
       [label |-> "user-center", to |-> <<"router-demo", "user-center">>] >>

\* RouterDemo <Routes> (part_000:314-325)
Leaf(path, element) ==
    [path |-> path, index |-> FALSE, element |-> element, children |-> <<>>]
RouteConfig ==
    << Leaf(<<>>, "Home"),
       Leaf(<<"about">>, "About"),
       Leaf(<<"user-list">>, "UserList"),
       Leaf(<<"user", ":id">>, "UserDetail"),
       [path |-> <<"user-center">>, index |-> FALSE, element |-> "UserLayout",
        children |->
          << [path |-> <<>>, index |-> TRUE, element |-> "UserProfile"],
             [path |-> <<"profile">>, index |-> FALSE, element |-> "UserProfile"],
             [path |-> <<"settings">>, index |-> FALSE, element |-> "UserSettings"] >>],
       Leaf(<<"*">>, "NotFound") >>

\* App renders RouterDemo outside any <Route>, directly under BrowserRouter
\* (README App, main.jsx): the routes are resolved against "/".
ParentPathnameBase == <<>>

\* The branches the router matches against: every route, and every child
\* route under the path of its parent.
Branches ==
    {[path |-> RouteConfig[r].path, index |-> FALSE,
      elements |-> <<RouteConfig[r].element>>] : r \in 1..Len(RouteConfig)}
    \cup
    UNION {{[path |-> RouteConfig[r].path \o RouteConfig[r].children[c].path,
             index |-> RouteConfig[r].children[c].index,
             elements |-> <<RouteConfig[r].element,
                            RouteConfig[r].children[c].element>>]
               : c \in 1..Len(RouteConfig[r].children)} : r \in 1..Len(RouteConfig)}

IsSplat(seg) == seg = "*"
IsParam(seg) == seg = ":id"

\* the router's ranking: static segments weigh more than parameters, an
\* index route gains, a splat loses
Score(b) ==
    Len(b.path)
    + (IF \E k \in 1..Len(b.path) : IsSplat(b.path[k]) THEN 0 - 2 ELSE 0)
    + (IF b.index THEN 2 ELSE 0)
    + 10 * Cardinality({k \in 1..Len(b.path) :
                            ~IsSplat(b.path[k]) /\ ~IsParam(b.path[k])})
    + 3 * Cardinality({k \in 1..Len(b.path) : IsParam(b.path[k])})

PathMatches(pattern, path) ==
    IF pattern # <<>> /\ IsSplat(pattern[Len(pattern)])
      THEN /\ Len(path) >= Len(pattern) - 1
           /\ \A k \in 1..(Len(pattern) - 1) :
                 IsParam(pattern[k]) \/ pattern[k] = path[k]
      ELSE /\ Len(path) = Len(pattern)
           /\ \A k \in 1..Len(pattern) :
                 IsParam(pattern[k]) \/ pattern[k] = path[k]

\* the part of the location the <Routes> element matches
RemainingPathname(loc) ==
    SubSeq(loc, Len(ParentPathnameBase) + 1, Len(loc))

Location == history[Len(history)]

\* the elements shown in the route outlet (part_000:313-326), outermost first
Outlet(loc) ==
    LET ms == {b \in Branches : PathMatches(b.path, RemainingPathname(loc))}
    IN IF ms = {} THEN <<>>
       ELSE (CHOOSE b \in ms : \A o \in ms : Score(o) <= Score(b)).elements

Shows(element) ==
    /\ routerTab = "demo"
    /\ \E k \in 1..Len(Outlet(Location)) : Outlet(Location)[k] = element

\* history.push
Navigate(to) ==
    /\ Len(history) < MaxHistory
    /\ history' = Append(history, to)

\* part_000:221-232   the two tab buttons of RouterDemo
SetRouterTab ==
    \E t \in {"intro", "demo"} :
        /\ routerTab' = t
        /\ event' = Ev("setRouterTab", <<>>)
        /\ UNCHANGED history
        /\ OnlyRouter

\* part_000:306-309   a link of the demo navigation
ClickDemoLink ==
    \E k \in 1..Len(DemoLinks) :
        /\ routerTab = "demo"
        /\ Navigate(DemoLinks[k].to)
        /\ event' = Ev("demoLink", <<k>>)
        /\ UNCHANGED routerTab
        /\ OnlyRouter

\* part_000:109   <Link to={`/user/${user.id}`}> of the UserList page
ClickUserLink ==
    \E id \in {"1", "2", "3"} :
        /\ Shows("UserList")
        /\ Navigate(<<"user", id>>)
        /\ event' = Ev("userLink", <<>>)
        /\ UNCHANGED routerTab
        /\ OnlyRouter

\* part_000:163-168   the NavLinks of UserLayout
ClickSubNav ==
    \E page \in {"profile", "settings"} :
        /\ Shows("UserLayout")
        /\ Navigate(<<"user-center", page>>)
        /\ event' = Ev("subNav", <<>>)
        /\ UNCHANGED routerTab
        /\ OnlyRouter

\* part_000:138   navigate(-1) of UserDetail
GoBack ==
    /\ Shows("UserDetail")
    /\ history' = IF Len(history) > 1
                    THEN SubSeq(history, 1, Len(history) - 1) ELSE history
    /\ event' = Ev("back", <<>>)
    /\ UNCHANGED routerTab
    /\ OnlyRouter

\* part_000:207   navigate('/') of NotFound
GoHome ==
    /\ Shows("NotFound")
    /\ Navigate(<<>>)
    /\ event' = Ev("home", <<>>)
    /\ UNCHANGED routerTab
    /\ OnlyRouter

\* BrowserRouter (part_000:12) takes the location from the address bar:
\* the user loads the page at a URL, which mounts RouterDemo afresh.
EnteredUrls ==
    { <<>>, <<"about">>, <<"user-list">>, <<"user-center">>, <<"user", "1">>,
      <<"router-demo">> }
EnterUrl ==
    \E u \in EnteredUrls :
        /\ Navigate(u)
        /\ routerTab' = "intro"
        /\ event' = Ev("enterUrl", <<>>)
        /\ OnlyRouter

(***************************************************************************)
(* UseDeferredValueDemo                                                    *)
(***************************************************************************)
MaxQueryLen == 2    \* longest text typed into the input

QueryChars == {"a", "b", "B"}
Texts(chars, n) == UNION {[1..k -> chars] : k \in 0..n}
Queries == Texts(QueryChars, MaxQueryLen)

\* String.prototype.toUpperCase on the characters used
UpperChar(c) == CASE c = "a" -> "A" [] c = "b" -> "B" [] OTHER -> c
toUpperCase(v) == [k \in 1..Len(v) |-> UpperChar(v[k])]

\* part_000:715-722
expensiveCompute(value) ==
    toUpperCase(value) \o <<" ", "-", " ", "p", "r", "o", "c", "e", "s", "s", "e", "d">>

\* useMemo(() => expensiveCompute(query), [query])
UseMemo_OnQuery(cell, deferred, q) ==
    IF cell.dep = q THEN cell
    ELSE [dep |-> q, value |-> expensiveCompute(q)]

\* part_000:738-740   useMemo(() => expensiveCompute(deferredQuery), [deferredQuery])
UseMemo(cell, deferred, q) ==
    IF cell.dep = deferred THEN cell
    ELSE [dep |-> deferred, value |-> expensiveCompute(deferred)]

\* part_000:770
computedResult == memo.value

\* part_000:752   onChange={(e) => setQuery(e.target.value)} and the urgent
\* render it causes, in which useDeferredValue keeps its previous value
onChange ==
    \E v \in Queries :
        /\ v # dvQuery
        /\ dvQuery' = v
        /\ deferredQuery' = deferredQuery
        /\ memo' = UseMemo(memo, deferredQuery', v)
        /\ event' = Ev("onChange", <<>>)
        /\ OnlyDefer

\* part_000:735   the deferred render: useDeferredValue returns query
DeferredRender ==
    /\ deferredQuery # dvQuery
    /\ deferredQuery' = dvQuery
    /\ memo' = UseMemo(memo, deferredQuery', dvQuery)
    /\ event' = Ev("deferredRender", <<>>)
    /\ UNCHANGED dvQuery
    /\ OnlyDefer

(***************************************************************************)
(* UseTransitionDemo                                                       *)
(***************************************************************************)
MaxItems == 3       \* items of the list (the source builds 1000)
MaxTypedLen == 1    \* longest text typed into the search box
MaxQueued == 2      \* most transition updates queued at once

SliceLimit == 100

Digits == <<"0", "1", "2", "3", "4", "5", "6", "7", "8", "9">>

\* part_000:354-359   { id: i, label: `Item ${i}` }
ITEMS == [k \in 1..MaxItems |->
            [id |-> k - 1, label |-> <<"I", "t", "e", "m", " ", Digits[k]>>]]

TypedChars == {"I", "1", "z"}
TypedTexts == Texts(TypedChars, MaxTypedLen)

LowerChar(c) == CASE c = "I" -> "i" [] OTHER -> c
toLowerCase(v) == [k \in 1..Len(v) |-> LowerChar(v[k])]

\* String.prototype.includes
includes(hay, needle) ==
    \E k \in 0..(Len(hay) - Len(needle)) :
        SubSeq(hay, k + 1, k + Len(needle)) = needle

\* part_000:371-373
filteredItems(q) ==
    LET keep(item) == includes(toLowerCase(item.label), toLowerCase(q))
    IN SelectSeq(ITEMS, keep)

\* part_000:416   filteredItems.slice(0, 100)
ShownItems(q) ==
    LET f == filteredItems(q)
    IN SubSeq(f, 1, IF Len(f) < SliceLimit THEN Len(f) ELSE SliceLimit)

\* handleChange that calls setQuery(value) outside startTransition
handleChange_Urgent(value) ==
    /\ Len(transitions) < MaxQueued
    /\ trQuery' = value
    /\ typed' = value
    /\ event' = Ev("handleChange", <<>>)
    /\ UNCHANGED <<isPending, transitions, selectedId>>
    /\ OnlyTrans

\* part_000:375-390   startTransition(() => setQuery(value)): isPending is
\* rendered true at once, the query update waits in the transition lane
handleChange(value) ==
    /\ Len(transitions) < MaxQueued
    /\ isPending' = TRUE
    /\ transitions' = Append(transitions, value)
    /\ typed' = value
    /\ event' = Ev("handleChange", <<>>)
    /\ UNCHANGED <<trQuery, selectedId>>
    /\ OnlyTrans

\* part_000:392-395 and 420   a click on a shown item
handleSelect(id) ==
    /\ \E k \in 1..Len(ShownItems(trQuery)) : ShownItems(trQuery)[k].id = id
    /\ selectedId' = Some(id)
    /\ event' = Ev("handleSelect", <<isPending>>)
    /\ UNCHANGED <<trQuery, isPending, transitions, typed>>
    /\ OnlyTrans

\* the transition render: the queued setQuery updates are applied in order
\* and isPending is rendered false (part_000:362-363)
TransitionRender ==
    /\ transitions # <<>>
    /\ trQuery' = transitions[Len(transitions)]
    /\ isPending' = FALSE
    /\ transitions' = <<>>
    /\ event' = Ev("transitionRender", <<>>)
    /\ UNCHANGED <<selectedId, typed>>
    /\ OnlyTrans

TypeSearch == \E v \in TypedTexts : handleChange(v)
ClickItem == \E id \in 0..(MaxItems - 1) : handleSelect(id)

(***************************************************************************)
(* App (the source is quoted in README.md)                                 *)
(***************************************************************************)
MaxNavClicks == 30  \* most navigation clicks followed

\* the feature list with the id of the entry before copied into the fourth
features_CopiedId ==
    << [id |-> "batching",   name |-> "automatic batching", component |-> "AutomaticBatching"],
       [id |-> "transition", name |-> "useTransition",      component |-> "UseTransitionDemo"],
       [id |-> "deferred",   name |-> "useDeferredValue",   component |-> "UseDeferredValueDemo"],
       [id |-> "deferred",   name |-> "useId",              component |-> "UseIdDemo"],
       [id |-> "router",     name |-> "React Router",       component |-> "RouterDemo"] >>

\* README.md:77-83   const features = [...]
features ==
    << [id |-> "batching",   name |-> "automatic batching", component |-> "AutomaticBatching"],
       [id |-> "transition", name |-> "useTransition",      component |-> "UseTransitionDemo"],
       [id |-> "deferred",   name |-> "useDeferredValue",   component |-> "UseDeferredValueDemo"],
       [id |-> "useId",      name |-> "useId",              component |-> "UseIdDemo"],
       [id |-> "router",     name |-> "React Router",       component |-> "RouterDemo"] >>

\* README.md:87   features.find(f => f.id === activeFeature)?.component
ActiveComponent ==
    LET hits == {k \in 1..Len(features) : features[k].id = activeFeature}
    IN IF hits = {} THEN Null
       ELSE Some(features[CHOOSE k \in hits : \A o \in hits : k <= o].component)

\* README.md:108-111   {ActiveComponent && <ActiveComponent />}
RenderedFeatures ==
    IF ActiveComponent = Null THEN <<>> ELSE <<ActiveComponent[1]>>

\* README.md:100   `nav-btn ${activeFeature === feature.id ? 'active' : ''}`
NavButtonClass(k) ==
    IF activeFeature = features[k].id THEN "nav-btn active" ELSE "nav-btn "

\* README.md:97-105   onClick={() => setActiveFeature(feature.id)}
ClickNavButton ==
    \E k \in 1..Len(features) :
        /\ navClicks < MaxNavClicks
        /\ activeFeature' = features[k].id
        /\ navClicks' = navClicks + 1
        /\ event' = Ev("navClick", <<k>>)
        /\ OnlyApp

Init ==
    /\ userInfo = Null
    /\ isLoading = FALSE
    /\ error = Null
    /\ userList = <<>>
    /\ pending = <<>>
    /\ settled = Null
    /\ activeTab = "intro"
    /\ username = <<>>
    /\ password = <<>>
    /\ event = Ev("init", <<>>)
    /\ count = 0
    /\ flag = FALSE
    /\ updates = <<>>
    /\ microtasks = 0
    /\ renders = 0
    /\ clicks = 0
    /\ history = << <<>> >>
    /\ routerTab = "intro"
    /\ dvQuery = <<>>
    /\ deferredQuery = <<>>
    /\ memo = [dep |-> <<>>, value |-> expensiveCompute(<<>>)]
    /\ trQuery = <<>>
    /\ isPending = FALSE
    /\ transitions = <<>>
    /\ selectedId = Null
    /\ typed = <<>>
    /\ activeFeature = "batching"
    /\ navClicks = 0

Next ==
    \/ CallLogin
    \/ CallFetchUserList
    \/ CallLogout
    \/ LoginTimer
    \/ FetchTimer

Spec == Init /\ [][Next]_vars /\ WF_vars(OldestTimer)

ViewNext ==
    \/ ClickTab
    \/ TypeUsername
    \/ TypePassword
    \/ handleLogin
    \/ ClickLogout
    \/ ClickFetchUserList
    \/ LoginTimer
    \/ FetchTimer

ViewSpec == Init /\ [][ViewNext]_vars /\ WF_vars(OldestTimer)

(***************************************************************************)
(* Properties of the user store                                            *)
(***************************************************************************)
IsShort(pw) == pw = Null \/ Len(pw[1]) < 6

\* C1: a login whose password is missing, empty or shorter than 6
\* characters settles by returning false with error = the fixed message and
\* isLoading = false, and neither its start nor its end writes userInfo.
C1_ShortPasswordRejected ==
    [][ /\ \A u \in Usernames, pw \in PasswordArgs :
              (IsShort(pw) /\ LoginStart(u, pw)) => userInfo' = userInfo
        /\ \A i \in 1..Len(pending) :
              (IsShort(pending[i].password) /\ LoginSettle(i)) =>
                  /\ settled' # Null
                  /\ settled'[1].kind = "login"
                  /\ settled'[1].value = "false"
                  /\ error' = Some(PasswordError)
                  /\ isLoading' = FALSE
                  /\ userInfo' = userInfo ]_vars

C1_Witness ==
    /\ event.op = "loginSettled"
    /\ settled # Null /\ settled[1].value = "false"
    /\ error = Some(PasswordError) /\ ~isLoading
    /\ userInfo # Null

\* C7: a login with a password of at least 6 characters that overlaps no
\* other login or fetchUserList call keeps isLoading = true and error = null
\* while it is pending, and settles by returning true with
\* userInfo = {id: 1, username, nickname: 'Demo User'}, isLoading = false
\* and error = null.
C7_LoneValidLogin ==
    /\ [](\A i \in 1..Len(pending) :
            (pending[i].kind = "login" /\ ~IsShort(pending[i].password)
               /\ ~pending[i].overlapped) => (isLoading /\ error = Null))
    /\ [][\A i \in 1..Len(pending) :
            (~IsShort(pending[i].password) /\ ~pending[i].overlapped
               /\ LoginSettle(i)) =>
                  /\ settled' # Null
                  /\ settled'[1].value = "true"
                  /\ userInfo' = Some([id |-> 1, username |-> pending[i].username,
                                       nickname |-> "Demo User"])
                  /\ isLoading' = FALSE
                  /\ error' = Null ]_vars

C7_Witness ==
    /\ event.op = "loginSettled"
    /\ settled # Null /\ settled[1].value = "true" /\ ~settled[1].overlapped
    /\ userInfo = Some(DemoUser(<<"u">>))
    /\ ~isLoading /\ error = Null

\* C9 (as claimed): isLoading is true whenever a login or fetchUserList call
\* is still pending.
C9_LoadingWhilePending == pending # <<>> => isLoading

\* C10: a login that has started always writes its outcome: a login of user u
\* with a valid password leads to userInfo = the record of u, one with a
\* short password to the password error, whatever happens in between
\* (logout included).
C10_NoCancellation ==
    /\ \A u \in Usernames :
          (\E i \in 1..Len(pending) :
              /\ pending[i].kind = "login"
              /\ pending[i].username = u
              /\ ~IsShort(pending[i].password))
          ~> (userInfo = Some(DemoUser(u)))
    /\ (\E i \in 1..Len(pending) :
              pending[i].kind = "login" /\ IsShort(pending[i].password))
          ~> (error = Some(PasswordError))

\* a logout has just emptied the store while a valid login is in flight
C10_Witness ==
    /\ event.op = "logout"
    /\ userInfo = Null
    /\ \E i \in 1..Len(pending) :
          pending[i].kind = "login" /\ ~IsShort(pending[i].password)

(***************************************************************************)
(* Properties of the store driven through the views                        *)
(***************************************************************************)
LoginClicked == event.op = "handleLogin"
ClickedUsername == event.arg[1]
ClickedPassword == event.arg[2]

\* C2 (as claimed): a click on the login button with a password shorter than
\* 6 characters, whatever the username field holds, leads to the view
\* displaying the error string.
C2_ShortPasswordShowsError ==
    (LoginClicked /\ Len(ClickedPassword) < 6) ~> ShowsError

\* C2 (amended): a click on the login button with a non-empty username and a
\* non-empty password shorter than 6 characters leads to the store holding
\* the password error with isLoading = false, which the UserInfo view
\* displays if it is mounted then.
C2_NonEmptyShortPasswordShowsError ==
    (LoginClicked /\ ClickedUsername # <<>> /\ ClickedPassword # <<>>
        /\ Len(ClickedPassword) < 6)
    ~> (/\ error = Some(PasswordError)
        /\ ~isLoading
        /\ (activeTab = "user" => ShowsError))

C2_Witness ==
    /\ event.op = "loginSettled"
    /\ settled # Null /\ settled[1].value = "false"
    /\ activeTab = "user" /\ ShowsError /\ error = Some(PasswordError)

\* C8: driven through the views only, at most one login or fetchUserList
\* call is pending at any time and isLoading is true exactly when one is,
\* whatever tab is shown.
C8_ViewsSerialiseCalls ==
    /\ Len(pending) <= 1
    /\ isLoading <=> (pending # <<>>)

\* a call is pending while the user has switched to another tab
C8_Witness ==
    /\ Len(pending) = 1 /\ isLoading
    /\ activeTab # "user" /\ event.op = "setActiveTab"

BatchNext ==
    \/ handleClick
    \/ handleTimeout
    \/ handlePromise
    \/ PromiseCallback
    \/ RenderBatch

BatchSpec == Init /\ [][BatchNext]_vars /\ WF_vars(PromiseCallback) /\ WF_vars(RenderBatch)

RouterNext ==
    \/ SetRouterTab
    \/ ClickDemoLink
    \/ ClickUserLink
    \/ ClickSubNav
    \/ GoBack
    \/ GoHome
    \/ EnterUrl

RouterSpec == Init /\ [][RouterNext]_vars

DeferNext ==
    \/ onChange
    \/ DeferredRender

DeferSpec == Init /\ [][DeferNext]_vars /\ WF_vars(DeferredRender)

TransNext ==
    \/ TypeSearch
    \/ ClickItem
    \/ TransitionRender

TransSpec == Init /\ [][TransNext]_vars /\ WF_vars(TransitionRender)

(***************************************************************************)
(* Properties of the feature components                                    *)
(***************************************************************************)
\* C3: the two updates of a click (count + 1, flag toggled) are rendered in
\* one pass, from the event handlers and from the Promise callback alike:
\* one render per click, and no rendered state has count changed by a click
\* whose flag toggle it does not show.
C3_OneRenderPerClick ==
    /\ flag = (count % 2 = 1)
    /\ renders = count
    /\ clicks - count \in {0, 1}
    /\ BatchIdle => count = clicks

C3_Witness ==
    /\ event = Ev("render", <<"promise">>)
    /\ BatchIdle /\ clicks >= 2 /\ count = clicks /\ renders = clicks

\* the page each link of the demo navigation is meant to show
LinkedPage ==
    << <<"Home">>, <<"About">>, <<"UserList">>, <<"UserLayout", "UserProfile">> >>

\* C4 (as claimed): after a click on a link of the demo navigation the route
\* outlet shows the page of that link, never NotFound.
C4_DemoLinksShowTheirPage ==
    event.op = "demoLink" => Outlet(Location) = LinkedPage[event.arg[1]]

\* uppercase letters of the characters typed, written out
UpperOf == [c \in {"a", "b", "B"} |-> IF c = "a" THEN "A" ELSE "B"]
ProcessedSuffix == <<" ", "-", " ", "p", "r", "o", "c", "e", "s", "s", "e", "d">>

\* C5: every input event sets query at once; in every rendered state
\* computedResult is uppercase(deferredQuery) followed by " - processed";
\* once input events stop, deferredQuery comes to equal query for good.
C5_DeferredValue ==
    /\ [](/\ Len(computedResult) = Len(deferredQuery) + 12
          /\ \A k \in 1..Len(deferredQuery) :
                computedResult[k] = UpperOf[deferredQuery[k]]
          /\ SubSeq(computedResult, Len(deferredQuery) + 1,
                    Len(computedResult)) = ProcessedSuffix)
    /\ [][onChange => (dvQuery' # dvQuery /\ dvQuery' \in Queries)]_vars
    /\ (<>[][~onChange]_vars) => <>[](deferredQuery = dvQuery)

\* the deferred value lags behind a non-empty query
C5_Witness ==
    /\ event.op = "onChange"
    /\ dvQuery = <<"a", "b">> /\ deferredQuery = <<"b">>
    /\ computedResult = <<"B">> \o ProcessedSuffix

\* C6: a query change made through startTransition is deferred (isPending
\* is rendered true, query keeps its value); a selection made meanwhile is
\* rendered at once and leaves the transition pending; isPending is true
\* exactly while a transition update is queued; once typing stops, query
\* comes to equal the last typed value with isPending false.
C6_Transition ==
    /\ [](isPending <=> transitions # <<>>)
    /\ [][\A v \in TypedTexts :
            handleChange(v) => (isPending' /\ trQuery' = trQuery)]_vars
    /\ [][\A id \in 0..(MaxItems - 1) :
            (isPending /\ handleSelect(id)) =>
                (selectedId' = <<id>> /\ isPending' /\ trQuery' = trQuery
                   /\ transitions' = transitions)]_vars
    /\ (<>[][~TypeSearch]_vars) => <>[](trQuery = typed /\ ~isPending)

\* an item was selected while a transition was pending
C6_Witness ==
    /\ event = Ev("handleSelect", <<TRUE>>)
    /\ isPending /\ selectedId = <<1>> /\ trQuery # typed

(***************************************************************************)
(* Further properties of the user store                                    *)
(***************************************************************************)
\* C11: logout sets userInfo to null and userList to the empty list and
\* leaves isLoading and error as they were; right after it getIsLoggedIn()
\* is false and getUserCount() is 0.  In every state getIsLoggedIn() is
\* true exactly when userInfo is non-null and getUserCount() is the length
\* of userList.
C11_LogoutFrame ==
    /\ [][event'.op = "logout" =>
            /\ userInfo' = <<>>
            /\ userList' = <<>>
            /\ isLoading' = isLoading
            /\ error' = error
            /\ getIsLoggedIn' = FALSE
            /\ getUserCount' = 0 ]_vars
    /\ [](/\ getIsLoggedIn <=> (userInfo # <<>>)
          /\ getUserCount = Len(userList)
          /\ getUserCount \in {0, 3})

\* a logout has just run while a call is in flight and an error is set
C11_Witness ==
    /\ event.op = "logout"
    /\ userInfo = <<>> /\ userList = <<>>
    /\ pending # <<>> /\ error # Null
    /\ ~getIsLoggedIn /\ getUserCount = 0

\* C12: every fetchUserList call starts by setting isLoading = true and
\* error = null, and comes to settle by setting userList to exactly the
\* three records with ids 1, 2, 3 and isLoading = false; it never changes
\* userInfo, and a further call replaces the list (it stays three long).
C12_FetchUserList ==
    /\ [][event'.op = "fetchUserList" =>
            (isLoading' /\ error' = <<>> /\ userInfo' = userInfo
               /\ userList' = userList)]_vars
    /\ [][event'.op = "fetchSettled" =>
            /\ Len(userList') = 3
            /\ [k \in 1..3 |-> userList'[k].id] = <<1, 2, 3>>
            /\ userList' = FixedUserList
            /\ isLoading' = FALSE
            /\ userInfo' = userInfo ]_vars
    /\ (\E i \in 1..Len(pending) : pending[i].kind = "fetchUserList")
         ~> (event.op = "fetchSettled" /\ Len(userList) = 3 /\ ~isLoading)

\* a fetch settles on a list that an earlier fetch had already filled
C12_Witness ==
    /\ event.op = "fetchSettled"
    /\ settled # Null /\ settled[1].kind = "fetchUserList" /\ settled[1].overlapped
    /\ pending = <<>>
    /\ Len(userList) = 3 /\ userInfo # Null /\ ~isLoading

(***************************************************************************)
(* Properties of App                                                       *)
(***************************************************************************)
AppNext == ClickNavButton

AppSpec == Init /\ [][AppNext]_vars

\* the five navigation buttons in order: the feature id and the component
\* each one stands for
ButtonFeatureId == <<"batching", "transition", "deferred", "useId", "router">>
ButtonComponent ==
    <<"AutomaticBatching", "UseTransitionDemo", "UseDeferredValueDemo",
      "UseIdDemo", "RouterDemo">>
ActiveButtons == {k \in 1..5 : NavButtonClass(k) = "nav-btn active"}

\* C13: activeFeature starts as 'batching' and is always one of the five
\* feature ids; exactly one feature component is rendered, the one of the
\* button clicked last (AutomaticBatching before any click), and exactly
\* that button carries the 'active' class.
C13_ActiveFeature ==
    /\ \E k \in 1..5 : activeFeature = ButtonFeatureId[k]
    /\ navClicks = 0 =>
          /\ activeFeature = "batching"
          /\ RenderedFeatures = <<"AutomaticBatching">>
          /\ ActiveButtons = {1}
    /\ event.op = "navClick" =>
          /\ activeFeature = ButtonFeatureId[event.arg[1]]
          /\ RenderedFeatures = <<ButtonComponent[event.arg[1]]>>
          /\ ActiveButtons = {event.arg[1]}

\* the useId button was clicked after another one
C13_Witness ==
    /\ event = Ev("navClick", <<4>>)
    /\ navClicks >= 2
    /\ activeFeature = "useId" /\ RenderedFeatures = <<"UseIdDemo">>
    /\ ActiveButtons = {4}

====
